---- MODULE Spec2Model ----
(***************************************************************************)
(* A model of the download command of the Facebook profile downloader     *)
(* (src/main.py, descargar): the initial navigation, the photo pass and    *)
(* the video pass, each a scroll loop that samples the document height,    *)
(* harvests links with an ordered list of selector strategies and          *)
(* processes every new link (navigate, locate the media element, download, *)
(* write the sidecar) before the next scroll.                              *)
(*                                                                         *)
(* The browser, the network and the file system are the environment: what  *)
(* they return is an input of the action that asks for it.                 *)
(***************************************************************************)
EXTENDS Integers, Sequences, FiniteSets, TLC

(***************************************************************************)
(* Program constants.                                                      *)
(***************************************************************************)
max_scroll_tries == 30
max_no_new_content == 8
max_retries == 3
MinBytes == 1000
NumStrategies == 5

(***************************************************************************)
(* Bounds of the model.                                                    *)
(***************************************************************************)
MaxHeight == 1
MaxAnchors == 2
NumPhotos == 3
NumVideos == 1
MaxCap == 1
MaxPairs == 2
MaxSegs == 2
MaxName == 3

(***************************************************************************)
(* URLs.  A URL is kept as the parts the program looks at: the scheme and  *)
(* host (the prefix test of the harvest), the last non-empty path segment  *)
(* (the video id) and the query parameters fbid and set (the photo id).    *)
(* An absent part is the empty string.                                     *)
(***************************************************************************)
Digit == <<"1", "2", "3", "4", "5", "6">>

Url(scheme, host, seg, fbid, set) ==
    [scheme |-> scheme, host |-> host, seg |-> seg, fbid |-> fbid, set |-> set]

\* An anchor without an href attribute (get_attribute returns None).
NoHref == Url("", "", "", "", "")

PhotoUrl(i) == Url("https", "www.facebook.com", "photo", Digit[i], "a")
VideoUrl(i) == Url("https", "www.facebook.com", Digit[i], "", "")

\* The photo as photo.php links to it: another href, the same fbid and set.
PhotoUrlAlt(i) == Url("https", "www.facebook.com", "photo.php", Digit[i], "a")

\* Links of the profile that do not start with https://www.facebook.com/.
ForeignPhoto == Url("https", "m.facebook.com", "photo", "1", "a")
ForeignVideo == Url("http", "www.facebook.com", "1", "", "")

FbPhotoUrls == {PhotoUrl(i) : i \in 1..NumPhotos}
FbVideoUrls == {VideoUrl(i) : i \in 1..NumVideos}

PhotoHrefs == FbPhotoUrls \cup {ForeignPhoto, NoHref}
VideoHrefs == FbVideoUrls \cup {ForeignVideo, NoHref}

\* href and href.startswith('https://www.facebook.com/')
IsFacebookHref(h) == h.scheme = "https" /\ h.host = "www.facebook.com"

\* get_photo_id_from_url: photo_{fbid}_{set}, each 'unknown' when absent.
get_photo_id_from_url(u) ==
    <<"photo", IF u.fbid = "" THEN "unknown" ELSE u.fbid,
               IF u.set = "" THEN "unknown" ELSE u.set>>

\* get_video_id_from_url: the last non-empty path segment, or video_{hash}.
get_video_id_from_url(u) ==
    IF u.seg # "" THEN <<u.seg>> ELSE <<"video", "hash", u.host>>

PhotoIds ==
    {get_photo_id_from_url(PhotoUrl(i)) : i \in 1..NumPhotos + 1}
    \cup {get_photo_id_from_url(VideoUrl(1))}
VideoIds == {get_video_id_from_url(VideoUrl(i)) : i \in 1..NumVideos + 1}

(***************************************************************************)
(* Responses of the two retrieval strategies.                              *)
(***************************************************************************)
Resp(kind, status, ctype, len) ==
    [kind |-> kind, status |-> status, ctype |-> ctype, len |-> len]

NotCalled == Resp("none", 0, "", 0)
Raised == Resp("raised", 0, "", 0)
Sizes == {0, MinBytes, MinBytes + 1}
ImageResponses ==
    {Resp("response", s, c, n) : s \in {200, 404}, c \in {"image/jpeg", "text/html"}, n \in Sizes}
VideoResponses ==
    {Resp("response", s, c, n) : s \in {200, 404}, c \in {"video/mp4", "text/html"}, n \in Sizes}

\* Content of a destination path: absent, left by an earlier run, or the
\* payload this run wrote.
Absent == Resp("absent", 0, "", 0)
Old == Resp("old", 0, "", 0)


(***************************************************************************)
(* State.                                                                  *)
(***************************************************************************)
VARIABLES
    pc,                     \* position in descargar: start, scroll, harvest, process, limit, done, crashed
    cat,                    \* the category pass: photo or video
    sel,                    \* the selector strategy the harvest is at
    max_fotos, max_videos,  \* the per-category caps of the command line
    last_height, scroll_tries, no_new_content_count,
    photo_links, processed_photos,
    video_links, processed_videos,
    new_links,              \* the links the current harvest found
    pending,                \* the links of new_links not yet processed
    images, videos,         \* content of imagenes/<id>.jpg and videos/<id>.mp4
    photo_meta, video_meta, \* the ids that have a sidecar <id>.json
    total_imagenes, total_videos, errores,
    \* What the run has observed so far (history, read by the properties only).
    iterations,             \* scroll iterations of this pass (stops counting above max_scroll_tries)
    since_new,              \* scroll iterations since the last harvest that found a link
    uniform,                \* every height sample of this pass was the same
    seen_before,            \* the seen-set as it was when this harvest began
    dom_hrefs,              \* the hrefs of the anchors the strategies of this harvest returned
    prev_dom,               \* the hrefs the previous harvest of this pass returned
    harvest_order,          \* the new links of this harvest, in the order it met them
    last,                   \* what processing the latest link did
    run,                    \* which invocation of the command this is
    world,                  \* the profile both invocations are played against
    first_total,            \* what the first invocation downloaded
    ya_existe,              \* links of this invocation whose destination existed
    \* FacebookScraper.scrape_profile (src/facebook_scraper.py).
    scrape_pc,              \* position in scrape_profile: idle, photos, photo_loop, videos, video_loop, return
    max_photos, max_videos_arg, \* its arguments max_photos and max_videos
    tab_links,              \* what the tabs show: per link, whether _download_file gets it
    todo,                   \* the links the download loop has not reached yet
    downloaded,             \* the local counter of _download_photos / _download_videos
    stats,                  \* the result of scrape_profile
    goto_call,              \* the latest call of safe_goto for the profile page or on its own
    id_call,                \* the latest call of an identifier function or of sanitize_filename
    fs_call,                \* the latest call of a function that reads or changes a directory
    scrape_file             \* what the latest round of a download loop of the scraper left on disk

vars == <<pc, cat, sel, max_fotos, max_videos, last_height, scroll_tries,
          no_new_content_count, photo_links, processed_photos, video_links,
          processed_videos, new_links, pending, images, videos, photo_meta,
          video_meta, total_imagenes, total_videos, errores, iterations,
          since_new, uniform, seen_before, dom_hrefs, prev_dom, harvest_order,
          last, run, world, first_total, ya_existe,
          scrape_pc, max_photos, max_videos_arg, tab_links, todo, downloaded, stats,
          goto_call, id_call, fs_call, scrape_file>>

pagerVars == <<last_height, scroll_tries, no_new_content_count>>
linkVars == <<photo_links, processed_photos, video_links, processed_videos>>
fileVars == <<images, videos, photo_meta, video_meta>>
countVars == <<total_imagenes, total_videos, errores>>
capVars == <<max_fotos, max_videos>>
harvestHist == <<seen_before, dom_hrefs, prev_dom, harvest_order>>
pagerHist == <<iterations, since_new, uniform>>
scraperVars == <<scrape_pc, max_photos, max_videos_arg, tab_links, todo, downloaded, stats,
                 scrape_file>>
runHist == <<run, world, first_total, scraperVars, goto_call, id_call, fs_call>>
descargarVars == <<pc, cat, sel, max_fotos, max_videos, last_height, scroll_tries,
                   no_new_content_count, photo_links, processed_photos, video_links,
                   processed_videos, new_links, pending, images, videos, photo_meta,
                   video_meta, total_imagenes, total_videos, errores, iterations,
                   since_new, uniform, seen_before, dom_hrefs, prev_dom,
                   harvest_order, last, run, world, first_total, ya_existe>>

Range(s) == {s[i] : i \in DOMAIN s}

\* The keys of the metadata dictionary, in the order the extraction assigns
\* them.
MetaFields == <<"descripcion", "fecha", "hashtags", "autor", "url">>

\* meta = {}
NoMeta == [f \in Range(MetaFields) |-> "missing"]

\* No round of a download loop of the scraper has run.
NoFile == [kind |-> "none", media |-> "absent", sidecar |-> FALSE]

\* Nothing processed yet in this iteration.
NoTrace ==
    [url |-> NoHref, nav |-> FALSE, raised |-> FALSE, located |-> FALSE,
     existed |-> FALSE, kept |-> FALSE,
     primary |-> NotCalled, secondary |-> NotCalled, secondary_calls |-> 0,
     wrote |-> FALSE, sidecar |-> FALSE, tab |-> FALSE, meta |-> NoMeta]

(***************************************************************************)
(* safe_goto: up to max_retries page loads, true at the first that does    *)
(* not raise.  loads[i] says whether the i-th load completes.              *)
(***************************************************************************)
\* A safe_goto that takes a page outside facebook.com for a failed load.
RECURSIVE GotoAttemptsStrict(_, _, _, _, _)
GotoAttemptsStrict(attempt, gotos, loads, urls, logger) ==
    IF attempt > max_retries
    THEN [result |-> FALSE, attempts |-> max_retries, gotos |-> gotos]
    ELSE IF ~logger
    THEN GotoAttemptsStrict(attempt + 1, gotos, loads, urls, logger)
    ELSE IF loads[attempt] /\ urls[attempt]
    THEN [result |-> TRUE, attempts |-> attempt, gotos |-> gotos + 1]
    ELSE GotoAttemptsStrict(attempt + 1, gotos + 1, loads, urls, logger)

\* A safe_goto that reports every page as loaded.
safe_goto_always(loads) == TRUE

\* The loop of safe_goto from round `attempt` on, `gotos` page loads made so
\* far: logger.info (which raises without a logger), page.goto (which
\* raises when loads[attempt] is false), then return True whether or not
\* the page URL contains facebook.com (urls[attempt]); an exception goes to
\* the next round, and after the last round the function returns False.
RECURSIVE GotoAttempts(_, _, _, _, _)
GotoAttempts(attempt, gotos, loads, urls, logger) ==
    IF attempt > max_retries
    THEN [result |-> FALSE, attempts |-> max_retries, gotos |-> gotos]
    ELSE IF ~logger
    THEN GotoAttempts(attempt + 1, gotos, loads, urls, logger)
    ELSE IF loads[attempt]
    THEN IF urls[attempt]
         THEN [result |-> TRUE, attempts |-> attempt, gotos |-> gotos + 1]
         ELSE [result |-> TRUE, attempts |-> attempt, gotos |-> gotos + 1]
    ELSE GotoAttempts(attempt + 1, gotos + 1, loads, urls, logger)

\* safe_goto as descargar calls it, with its logger: true when one of the
\* max_retries loads completes.
safe_goto(loads) ==
    GotoAttempts(1, 0, loads, [i \in 1..max_retries |-> TRUE], TRUE).result

NoCall ==
    [called |-> FALSE, loads |-> <<>>, urls |-> <<>>, logger |-> FALSE,
     result |-> FALSE, attempts |-> 0, gotos |-> 0]

\* safe_goto(page, url, logger) called on its own.
CallSafeGoto(loads, urls, logger) ==
    /\ goto_call' = [called |-> TRUE, loads |-> loads, urls |-> urls, logger |-> logger]
                     @@ GotoAttempts(1, 0, loads, urls, logger)
    /\ UNCHANGED <<descargarVars, scraperVars, id_call, fs_call>>

LoadsOk == [i \in 1..max_retries |-> TRUE]
LoadsLastOk == [i \in 1..max_retries |-> i = max_retries]
LoadsFail == [i \in 1..max_retries |-> FALSE]

(***************************************************************************)
(* Identifiers and file names as text.  A string is a sequence of          *)
(* one-character strings.                                                  *)
(***************************************************************************)
Letters ==
    {"a", "b", "c", "d", "e", "f", "g", "h", "i", "j", "k", "l", "m",
     "n", "o", "p", "q", "r", "s", "t", "u", "v", "w", "x", "y", "z"}
Digits == {"0", "1", "2", "3", "4", "5", "6", "7", "8", "9"}
HexDigits ==
    <<"0", "1", "2", "3", "4", "5", "6", "7", "8", "9", "a", "b", "c", "d", "e", "f">>

\* The characters the pattern [^\w\-_\. ] does not match.
Allowed == Letters \cup Digits \cup {"_", "-", ".", " "}

\* A sanitize_filename that drops the characters it should replace.
remove_disallowed(name) == SelectSeq(name, LAMBDA c : c \in Allowed)

\* re.sub(r'[^\w\-_\. ]', '_', name)
sanitize_filename(name) ==
    [i \in 1..Len(name) |-> IF name[i] \in Allowed THEN name[i] ELSE "_"]

\* hashlib.md5(url.encode()).hexdigest()[:8]: eight hexadecimal digits that
\* depend on the url only (here on its length).
Md5Hex8(url) == [i \in 1..8 |-> HexDigits[((Len(url) * i) % 16) + 1]]

\* The index of the first character of s that is in set C, Len(s) + 1 if none.
FirstOf(s, C) ==
    IF \E i \in 1..Len(s) : s[i] \in C
    THEN CHOOSE i \in 1..Len(s) : s[i] \in C /\ \A j \in 1..i - 1 : s[j] \notin C
    ELSE Len(s) + 1

\* s.split(sep)
RECURSIVE Split(_, _)
Split(s, sep) ==
    LET i == FirstOf(s, {sep}) IN
    IF i > Len(s) THEN <<s>>
    ELSE <<SubSeq(s, 1, i - 1)>> \o Split(SubSeq(s, i + 1, Len(s)), sep)

\* urllib.parse.urlparse on a url with a scheme: the network location runs
\* from '//' to the first of '/', '?', '#' (and a bracket without its pair
\* raises ValueError), the fragment starts at the first '#', the query at
\* the first '?'.
urlparse(url) ==
    LET colon == FirstOf(url, {":"})
        rest == SubSeq(url, colon + 1, Len(url))
        hasNetloc == Len(rest) >= 2 /\ rest[1] = "/" /\ rest[2] = "/"
        afterSlashes == IF hasNetloc THEN SubSeq(rest, 3, Len(rest)) ELSE rest
        n == IF hasNetloc THEN FirstOf(afterSlashes, {"/", "?", "#"}) ELSE 1
        netloc == SubSeq(afterSlashes, 1, n - 1)
        tail == SubSeq(afterSlashes, n, Len(afterSlashes))
        noFragment == SubSeq(tail, 1, FirstOf(tail, {"#"}) - 1)
        q == FirstOf(noFragment, {"?"})
    IN [raised |-> ("[" \in Range(netloc)) # ("]" \in Range(netloc)),
        netloc |-> netloc,
        path |-> SubSeq(noFragment, 1, q - 1),
        query |-> SubSeq(noFragment, q + 1, Len(noFragment))]

\* unquote after replace('+', ' '); of the percent escapes, %2F.
RECURSIVE unquote_plus(_)
unquote_plus(s) ==
    IF s = <<>> THEN <<>>
    ELSE IF s[1] = "+" THEN <<" ">> \o unquote_plus(Tail(s))
    ELSE IF Len(s) >= 3 /\ s[1] = "%" /\ s[2] = "2" /\ s[3] = "F"
         THEN <<"/">> \o unquote_plus(SubSeq(s, 4, Len(s)))
    ELSE <<s[1]>> \o unquote_plus(Tail(s))

\* urllib.parse.parse_qsl(query): the (name, value) pairs of the fields
\* separated by '&', a field without '=' or with a blank value left out.
RECURSIVE FieldPairs(_)
FieldPairs(fields) ==
    IF fields = <<>> THEN <<>>
    ELSE LET name_value == Head(fields)
             eq == FirstOf(name_value, {"="})
             name == SubSeq(name_value, 1, eq - 1)
             value == SubSeq(name_value, eq + 1, Len(name_value))
         IN (IF eq <= Len(name_value) /\ Len(value) > 0
             THEN <<(<<unquote_plus(name), unquote_plus(value)>>)>>
             ELSE <<>>)
            \o FieldPairs(Tail(fields))

parse_qsl(query) == IF query = <<>> THEN <<>> ELSE FieldPairs(Split(query, "&"))

\* The values of a name, in the order of the fields.
ValuesOf(pairs, name) ==
    LET mine == SelectSeq(pairs, LAMBDA p : p[1] = name)
    IN [i \in 1..Len(mine) |-> mine[i][2]]

\* A dictionary lookup that returns the values of a name last first.
DictGetReversed(pairs, name, default) ==
    LET values == ValuesOf(pairs, name)
    IN IF values = <<>> THEN default
       ELSE [i \in 1..Len(values) |-> values[Len(values) + 1 - i]]

\* parse_qs(query).get(name, default): the list of the values of the name.
DictGet(pairs, name, default) ==
    LET values == ValuesOf(pairs, name)
    IN IF values = <<>> THEN default ELSE values

Str_fbid == <<"f", "b", "i", "d">>
Str_set == <<"s", "e", "t">>
Str_unknown == <<"u", "n", "k", "n", "o", "w", "n">>
Str_photo_ == <<"p", "h", "o", "t", "o", "_">>
Str_video_ == <<"v", "i", "d", "e", "o", "_">>

\* get_photo_id_from_url on the text of the url.
photo_id(url) ==
    LET parsed == urlparse(url) IN
    IF parsed.raised THEN Str_photo_ \o Md5Hex8(url)
    ELSE LET query_params == parse_qsl(parsed.query)
             fbid == DictGet(query_params, Str_fbid, <<Str_unknown>>)[1]
             set_param == DictGet(query_params, Str_set, <<Str_unknown>>)[1]
         IN sanitize_filename(Str_photo_ \o fbid \o <<"_">> \o set_param)

\* Every piece of the path, the empty ones too.
all_segments(path) == Split(path, "/")

\* [seg for seg in parsed.path.split('/') if seg]
path_segments(path) == SelectSeq(Split(path, "/"), LAMBDA seg : seg # <<>>)

\* get_video_id_from_url on the text of the url.
video_id(url) ==
    LET parsed == urlparse(url) IN
    IF parsed.raised THEN Str_video_ \o Md5Hex8(url)
    ELSE LET segs == path_segments(parsed.path)
         IN sanitize_filename(IF segs # <<>> THEN segs[Len(segs)]
                              ELSE Str_video_ \o Md5Hex8(url))

(***************************************************************************)
(* Directories.  A file name is a stem and the sequence of its suffixes    *)
(* ('a', <<'.desc', '.txt'>> is a.desc.txt); a directory is a set of       *)
(* entries, each a name and a kind, 'file' or 'dir'.                       *)
(***************************************************************************)
FileName(stem, tail) == [stem |-> stem, tail |-> tail]
Entry(name, kind) == [name |-> name, kind |-> kind]

\* Path.suffix: the last suffix of the name, '' when it has none.
suffix(name) == IF name.tail = <<>> THEN "" ELSE name.tail[Len(name.tail)]

\* Path.with_suffix(s): the last suffix, if any, replaced by the suffixes
\* of s.
with_suffix(name, tail) ==
    FileName(name.stem,
             (IF name.tail = <<>> THEN <<>> ELSE SubSeq(name.tail, 1, Len(name.tail) - 1))
             \o tail)

DescTail == <<".desc", ".txt">>
OcrTail == <<".ocr", ".txt">>

\* self.supported_formats
supported_formats == {".jpg", ".jpeg", ".png", ".bmp", ".tiff", ".webp"}

\* A comparison of the suffix as it is written.
keep_case(s) == s

\* str.lower on the suffixes of the directories.
lower(s) ==
    IF s = ".JPG" THEN ".jpg"
    ELSE IF s = ".Png" THEN ".png"
    ELSE s

\* The order of str on the stems and on the suffix texts of the
\* directories, by code point: upper case before lower case.
StemOrder == <<"B", "a", "b">>
TailOrder == <<(<<>>), (<<".JPG">>), (<<".Png">>), DescTail, (<<".jpg">>), (<<".json">>),
               OcrTail, (<<".png">>), (<<".txt">>)>>
Rank(order, x) == CHOOSE i \in 1..Len(order) : order[i] = x

\* Path.__lt__ for two names of one directory.
PathLess(m, n) ==
    \/ Rank(StemOrder, m.stem) < Rank(StemOrder, n.stem)
    \/ m.stem = n.stem /\ Rank(TailOrder, m.tail) < Rank(TailOrder, n.tail)

\* sorted(image_files)
RECURSIVE sorted(_)
sorted(S) ==
    IF S = {} THEN <<>>
    ELSE LET least == CHOOSE m \in S : \A n \in S \ {m} : PathLess(m, n)
         IN <<least>> \o sorted(S \ {least})

\* ImageProcessor._get_image_files(directory)
get_image_files(directory) ==
    sorted({e.name : e \in {f \in directory :
                               f.kind = "file"
                               /\ lower(suffix(f.name)) \in supported_formats}})

\* Path.exists() for a name of the directory.
exists(directory, name) == \E e \in directory : e.name = name

\* ImageProcessor.cleanup_processed_files(directory): unlink of every file
\* whose Path.suffix is in ['.desc.txt', '.ocr.txt'].
cleanup_processed_files(directory) ==
    directory \ {e \in directory :
                    e.kind = "file" /\ suffix(e.name) \in {".desc.txt", ".ocr.txt"}}

\* imagenes_dir.glob("*.jpg")
glob_jpg(directory) == {e \in directory : suffix(e.name) = ".jpg"}

\* nuevas: the images with neither sidecar.
nuevas(directory) ==
    {img \in glob_jpg(directory) :
        ~(exists(directory, with_suffix(img.name, DescTail))
          \/ exists(directory, with_suffix(img.name, OcrTail)))}

\* procesar_imagenes: for each image of nuevas the description is written
\* unless running ollama raises, the text unless Tesseract raises (as it
\* does on an entry that is no file).
procesar_imagenes(directory, ollama, tesseract) ==
    directory
    \cup {Entry(with_suffix(img.name, DescTail), "file") :
             img \in {n \in nuevas(directory) : ollama}}
    \cup {Entry(with_suffix(img.name, OcrTail), "file") :
             img \in {n \in nuevas(directory) : tesseract /\ n.kind = "file"}}

\* No directory function has been called.
NoFsCall == [fn |-> "none", directory |-> {}, tools |-> <<FALSE, FALSE>>,
             listing |-> <<>>, after |-> {}]

\* A conversion that cuts the url at its last '?'.
before_last_question(url) ==
    IF \A i \in 1..Len(url) : url[i] # "?"
    THEN url
    ELSE SubSeq(url, 1, (CHOOSE i \in 1..Len(url) :
                            url[i] = "?" /\ \A j \in i + 1..Len(url) : url[j] # "?") - 1)

\* get_high_resolution_url: base_url = url.split('?')[0]
get_high_resolution_url(url) == Split(url, "?")[1]

\* No identifier function has been called.
NoParts == [netloc |-> <<>>, segs |-> <<>>, pairs |-> <<>>]
NoIdCall == [fn |-> "none", parts |-> NoParts, arg |-> <<>>, result |-> <<>>]

(***************************************************************************)
(* The scroll pager.                                                       *)
(***************************************************************************)
\* while scroll_tries < max_scroll_tries and no_new_content_count < max_no_new_content
LoopCondition(tries, count) ==
    tries < max_scroll_tries /\ count < max_no_new_content

\* A pager that keeps scroll_tries when the height has changed.
ScrollTriesKept(tries, old_height, new_height) ==
    IF new_height = old_height THEN tries + 1 ELSE tries

\* if new_height == last_height: scroll_tries += 1 else: scroll_tries = 0
NextScrollTries(tries, old_height, new_height) ==
    IF new_height = old_height THEN tries + 1 ELSE 0

\* A loop that does not count an empty harvest.
NoNewContentNotCounted(count, found) == IF found THEN 0 ELSE count

\* if new_links: ... no_new_content_count = 0 else: no_new_content_count += 1
NextNoNewContent(count, found) == IF found THEN 0 ELSE count + 1

\* if max_fotos and len(processed_photos) >= max_fotos: break
LimitReached(cap, processed) == cap # 0 /\ Cardinality(processed) >= cap

Init ==
    /\ pc = "start"
    /\ cat = "photo"
    /\ sel = 1
    /\ max_fotos \in 0..MaxCap
    /\ max_videos \in 0..MaxCap
    /\ last_height = 0
    /\ scroll_tries = 0
    /\ no_new_content_count = 0
    /\ photo_links = {}
    /\ processed_photos = {}
    /\ video_links = {}
    /\ processed_videos = {}
    /\ new_links = {}
    /\ pending = {}
    /\ images \in [PhotoIds -> {Absent, Old}]
    /\ videos \in [VideoIds -> {Absent, Old}]
    /\ photo_meta = {}
    /\ video_meta = {}
    /\ total_imagenes = 0
    /\ total_videos = 0
    /\ errores = 0
    /\ iterations = 0
    /\ since_new = 0
    /\ uniform = TRUE
    /\ seen_before = {}
    /\ dom_hrefs = {}
    /\ prev_dom = {}
    /\ harvest_order = <<>>
    /\ last = NoTrace
    /\ run = 1
    /\ first_total = 0
    /\ ya_existe = 0
    /\ scrape_pc = "idle"
    /\ scrape_file = NoFile
    /\ todo = <<>>
    /\ downloaded = 0
    /\ stats = [photos |-> 0, videos |-> 0, errors |-> 0]
    /\ goto_call = NoCall
    /\ id_call = NoIdCall
    /\ fs_call = NoFsCall

\* The arguments and the outcome of safe_goto(page, url, logger).
GotoCall(loads) ==
    [called |-> TRUE, loads |-> loads, urls |-> [i \in 1..max_retries |-> TRUE],
     logger |-> TRUE]
    @@ GotoAttempts(1, 0, loads, [i \in 1..max_retries |-> TRUE], TRUE)

\* A command that goes on to the photos whatever safe_goto returned.
StartAnyway(loads) ==
    /\ pc = "start"
    /\ goto_call' = GotoCall(loads)
    /\ pc' = "scroll"
    /\ UNCHANGED <<cat, sel, capVars, pagerVars, linkVars, new_links, pending,
                   fileVars, countVars, pagerHist, harvestHist, last, run, world,
                   first_total, scraperVars, ya_existe, id_call, fs_call>>

\* The initial safe_goto of the profile page; on failure the command returns.
Start(loads) ==
    /\ pc = "start"
    /\ goto_call' = GotoCall(loads)
    /\ pc' = IF safe_goto(loads) THEN "scroll" ELSE "done"
    /\ UNCHANGED <<cat, sel, capVars, pagerVars, linkVars, new_links, pending,
                   fileVars, countVars, pagerHist, harvestHist, last, run, world,
                   first_total, scraperVars, ya_existe, id_call, fs_call>>

\* One scroll of the loop: the composite scroll, then the height sample h.
Scroll(h) ==
    /\ pc = "scroll"
    /\ LoopCondition(scroll_tries, no_new_content_count)
    /\ scroll_tries' = NextScrollTries(scroll_tries, last_height, h)
    /\ last_height' = h
    /\ new_links' = {}
    /\ sel' = 1
    /\ pc' = "harvest"
    /\ iterations' = IF iterations > max_scroll_tries THEN iterations ELSE iterations + 1
    /\ since_new' = since_new + 1
    /\ uniform' = IF iterations = 0 THEN TRUE ELSE uniform /\ h = last_height
    /\ seen_before' = IF cat = "photo" THEN photo_links ELSE video_links
    /\ prev_dom' = dom_hrefs
    /\ dom_hrefs' = {}
    /\ harvest_order' = <<>>
    /\ last' = NoTrace
    /\ UNCHANGED <<cat, capVars, no_new_content_count, linkVars, pending,
                   fileVars, countVars, runHist, ya_existe>>

\* The height sample after the scroll raises: page.evaluate stands outside
\* every try block, so the exception leaves descargar.
SampleRaises ==
    /\ pc = "scroll"
    /\ LoopCondition(scroll_tries, no_new_content_count)
    /\ pc' = "crashed"
    /\ UNCHANGED <<cat, sel, capVars, pagerVars, linkVars, new_links, pending,
                   fileVars, countVars, pagerHist, harvestHist, last, runHist,
                   ya_existe>>

\* A harvest that takes every href, whatever its prefix.
RECURSIVE CollectAnyHost(_, _, _)
CollectAnyHost(anchors, links, new) ==
    IF anchors = <<>>
    THEN [links |-> links, new |-> new]
    ELSE LET href == Head(anchors) IN
         IF href # NoHref /\ href \notin links
         THEN CollectAnyHost(Tail(anchors), links \cup {href}, new \cup {href})
         ELSE CollectAnyHost(Tail(anchors), links, new)

\* A harvest that does not put the links it returns into the seen-set.
RECURSIVE CollectForgetting(_, _, _)
CollectForgetting(anchors, links, new) ==
    IF anchors = <<>>
    THEN [links |-> links, new |-> new]
    ELSE LET href == Head(anchors) IN
         IF IsFacebookHref(href) /\ href \notin links
         THEN CollectForgetting(Tail(anchors), links, new \cup {href})
         ELSE CollectForgetting(Tail(anchors), links, new)

\* The anchors of one strategy, in DOM order: a link that starts with the
\* Facebook prefix and is not in the seen-set goes into both sets.
RECURSIVE CollectLinks(_, _, _)
CollectLinks(anchors, links, new) ==
    IF anchors = <<>>
    THEN [links |-> links, new |-> new]
    ELSE LET href == Head(anchors) IN
         IF IsFacebookHref(href) /\ href \notin links
         THEN CollectLinks(Tail(anchors), links \cup {href}, new \cup {href})
         ELSE CollectLinks(Tail(anchors), links, new)

\* The links a strategy adds to new_links, in the order of its anchors.
RECURSIVE NewInOrder(_, _, _)
NewInOrder(anchors, links, order) ==
    IF anchors = <<>>
    THEN order
    ELSE LET href == Head(anchors) IN
         IF IsFacebookHref(href) /\ href \notin links
         THEN NewInOrder(Tail(anchors), links \cup {href}, Append(order, href))
         ELSE NewInOrder(Tail(anchors), links, order)

\* One selector strategy of the harvest (four anchor selectors, then the
\* nearest ancestor anchor of each media element); after the last one the
\* loop either processes the new links or counts an empty harvest.
HarvestStrategy(anchors) ==
    /\ pc = "harvest"
    /\ LET r == CollectLinks(anchors,
                             IF cat = "photo" THEN photo_links ELSE video_links,
                             new_links)
       IN /\ photo_links' = IF cat = "photo" THEN r.links ELSE photo_links
          /\ video_links' = IF cat = "video" THEN r.links ELSE video_links
          /\ new_links' = r.new
          /\ dom_hrefs' = dom_hrefs \cup (Range(anchors) \ {NoHref})
          /\ harvest_order' =
                NewInOrder(anchors, IF cat = "photo" THEN photo_links ELSE video_links,
                           harvest_order)
          /\ IF sel < NumStrategies
             THEN /\ sel' = sel + 1
                  /\ UNCHANGED <<pc, pending, no_new_content_count>>
             ELSE /\ sel' = 1
                  /\ pending' = r.new
                  /\ pc' = IF r.new # {} THEN "process" ELSE "limit"
                  /\ no_new_content_count' =
                        IF r.new # {} THEN no_new_content_count
                        ELSE NextNoNewContent(no_new_content_count, FALSE)
          /\ since_new' = IF sel = NumStrategies /\ r.new # {} THEN 0 ELSE since_new
    /\ UNCHANGED <<cat, capVars, last_height, scroll_tries, processed_photos,
                   processed_videos, fileVars, countVars, iterations, uniform,
                   seen_before, prev_dom, last, runHist, ya_existe>>


(***************************************************************************)
(* Processing one link.  What the post page and the network answer is the  *)
(* input e: the page loads of safe_goto, whether a page operation raises   *)
(* before the media element is looked up, whether the selector chain finds *)
(* an element, the kind of its src attribute, and the responses of the     *)
(* primary request and of the in-page fetch.                               *)
(***************************************************************************)
\* The metadata of a post page: how many keys the extraction assigns before
\* a page operation raises (all of them if none does), and which of the
\* elements it looks up are on the page.
PageMeta(assigned, present) == [assigned |-> assigned, present |-> present]

\* Every element is on the page and no operation raises.
FullMeta == PageMeta(Len(MetaFields), [f \in Range(MetaFields) |-> TRUE])

Env(loads, raises, found, src, primary, fallback) ==
    [loads |-> loads, raises |-> raises, found |-> found, src |-> src,
     primary |-> primary, fallback |-> fallback, meta |-> FullMeta]

WithMeta(e, m) == [e EXCEPT !.meta = m]

\* The metadata extraction: each key takes the text of its element, or its
\* default when the element is absent (url is always the link); an
\* exception ends the extraction and leaves the later keys out.
extract_meta(m) ==
    [f \in Range(MetaFields) |->
        IF (CHOOSE i \in 1..Len(MetaFields) : MetaFields[i] = f) > m.assigned
        THEN "missing"
        ELSE IF f = "url" \/ m.present[f] THEN "text" ELSE "default"]

\* src and (src.startswith('http') or src.startswith('//'))
SrcKinds == {"http", "//", "none"}
ValidSrc(src) == src \in {"http", "//"}

\* content_type.startswith("image/")
IsImageType(ctype) == ctype = "image/jpeg"
IsVideoType(ctype) == ctype = "video/mp4"

\* The checks of the primary request: status 200, an image content type,
\* a body of more than 1000 bytes.
PrimaryAccepts(r) ==
    r.kind = "response" /\ r.status = 200 /\ IsImageType(r.ctype) /\ r.len > MinBytes

\* The check of the in-page fetch: img_bytes and len(img_bytes) > 1000.
FallbackAccepts(r) == r.kind = "response" /\ r.len > MinBytes

\* The download of a photo whose destination does not exist: the primary
\* request, and the in-page fetch in the handler of an exception of the
\* primary request; errores += 1 closes that handler.
DownloadPhoto(primary, fallback) ==
    IF primary.kind = "raised"
    THEN [wrote |-> FallbackAccepts(fallback), payload |-> fallback,
          secondary |-> fallback, secondary_calls |-> 1, errs |-> 1]
    ELSE [wrote |-> PrimaryAccepts(primary), payload |-> primary,
          secondary |-> NotCalled, secondary_calls |-> 0, errs |-> 0]

\* The download of a video whose destination does not exist: one in-page
\* fetch, whose bytes are written as they come.
DownloadVideo(fetch) ==
    IF fetch.kind = "raised"
    THEN [wrote |-> FALSE, payload |-> fetch,
          secondary |-> NotCalled, secondary_calls |-> 0, errs |-> 1]
    ELSE [wrote |-> TRUE, payload |-> fetch,
          secondary |-> NotCalled, secondary_calls |-> 0, errs |-> 0]

\* A sidecar written only beside a file this link downloaded.
SidecarOnlyWithFile(found, src, existed, wrote) == found /\ wrote

\* A sidecar written for every link whose page was searched.
SidecarAlways(found, src, existed, wrote) == TRUE

\* if img_tag: ... write the sidecar, whatever the download did.
WritesSidecar(found, src, existed, wrote) == found

\* A download that does not look at the destination.
DownloadsOverExisting(src, existed) == ValidSrc(src)

\* The download is attempted for a valid src whose destination does not
\* exist: if dest.exists(): (log) else: (download).
Downloads(src, existed) == ValidSrc(src) /\ ~existed

\* The body of the loop of process_photo_links / process_video_links for one
\* link whose destination holds `content`: what it calls and what it changes.
ProcessLink(category, u, e, content) ==
    LET existed == content.kind # "absent"
        d == IF category = "photo" THEN DownloadPhoto(e.primary, e.fallback)
             ELSE DownloadVideo(e.primary)
        base == [NoTrace EXCEPT !.url = u, !.existed = existed]
        written(sidecar) == IF sidecar THEN extract_meta(e.meta) ELSE NoMeta
    IN  IF ~safe_goto(e.loads)
        THEN [base EXCEPT !.nav = FALSE] @@ [imgs |-> 0, errs |-> 0, payload |-> content]
        ELSE IF e.raises
        THEN [base EXCEPT !.nav = TRUE, !.tab = TRUE, !.raised = TRUE]
             @@ [imgs |-> 0, errs |-> 1, payload |-> content]
        ELSE IF ~e.found
        THEN [base EXCEPT !.nav = TRUE, !.tab = TRUE,
                          !.sidecar = WritesSidecar(FALSE, e.src, existed, FALSE),
                          !.meta = written(WritesSidecar(FALSE, e.src, existed, FALSE))]
             @@ [imgs |-> 0, errs |-> 1, payload |-> content]
        ELSE IF ~Downloads(e.src, existed)
        THEN [base EXCEPT !.nav = TRUE, !.tab = TRUE, !.located = TRUE,
                          !.kept = ValidSrc(e.src) /\ existed,
                          !.sidecar = WritesSidecar(TRUE, e.src, existed, FALSE),
                          !.meta = written(WritesSidecar(TRUE, e.src, existed, FALSE))]
             @@ [imgs |-> 0, errs |-> 0, payload |-> content]
        ELSE [base EXCEPT !.nav = TRUE, !.tab = TRUE, !.located = TRUE,
                          !.primary = e.primary, !.secondary = d.secondary,
                          !.secondary_calls = d.secondary_calls,
                          !.wrote = d.wrote,
                          !.sidecar = WritesSidecar(TRUE, e.src, existed, d.wrote),
                          !.meta = written(WritesSidecar(TRUE, e.src, existed, d.wrote))]
             @@ [imgs |-> IF d.wrote THEN 1 ELSE 0, errs |-> d.errs,
                 payload |-> IF d.wrote THEN d.payload ELSE content]

\* if photo_url in processed_photos: continue
Skipped(u, content) ==
    [NoTrace EXCEPT !.url = u] @@ [imgs |-> 0, errs |-> 0, payload |-> content]

Trace(r) == [f \in DOMAIN NoTrace |-> r[f]]

\* A loop that goes back to scrolling after the first link of a batch.
AfterFirstLink(rest) ==
    /\ pending' = rest
    /\ pc' = "limit"
    /\ no_new_content_count' = NextNoNewContent(no_new_content_count, TRUE)

\* After the last link of the batch: no_new_content_count = 0, then the
\* limit check.
AfterLink(rest) ==
    /\ pending' = rest
    /\ pc' = IF rest = {} THEN "limit" ELSE "process"
    /\ no_new_content_count' =
          IF rest = {} THEN NextNoNewContent(no_new_content_count, TRUE)
          ELSE no_new_content_count

ProcessPhoto(u, e) ==
    /\ pc = "process"
    /\ cat = "photo"
    /\ u \in pending
    /\ LET id == get_photo_id_from_url(u)
           r == IF u \in processed_photos THEN Skipped(u, images[id])
                ELSE ProcessLink("photo", u, e, images[id])
       IN /\ processed_photos' = processed_photos \cup {u}
          /\ images' = [images EXCEPT ![id] = r.payload]
          /\ photo_meta' = IF r.sidecar THEN photo_meta \cup {id} ELSE photo_meta
          /\ total_imagenes' = total_imagenes + r.imgs
          /\ errores' = errores + r.errs
          /\ ya_existe' = IF r.kept THEN ya_existe + 1 ELSE ya_existe
          /\ last' = Trace(r)
    /\ AfterLink(pending \ {u})
    /\ UNCHANGED <<cat, sel, capVars, last_height, scroll_tries, photo_links,
                   video_links, processed_videos, new_links, videos, video_meta,
                   total_videos, pagerHist, harvestHist, runHist>>

ProcessVideo(u, e) ==
    /\ pc = "process"
    /\ cat = "video"
    /\ u \in pending
    /\ LET id == get_video_id_from_url(u)
           r == IF u \in processed_videos THEN Skipped(u, videos[id])
                ELSE ProcessLink("video", u, e, videos[id])
       IN /\ processed_videos' = processed_videos \cup {u}
          /\ videos' = [videos EXCEPT ![id] = r.payload]
          /\ video_meta' = IF r.sidecar THEN video_meta \cup {id} ELSE video_meta
          /\ total_videos' = total_videos + r.imgs
          /\ errores' = errores + r.errs
          /\ ya_existe' = IF r.kept THEN ya_existe + 1 ELSE ya_existe
          /\ last' = Trace(r)
    /\ AfterLink(pending \ {u})
    /\ UNCHANGED <<cat, sel, capVars, last_height, scroll_tries, photo_links,
                   video_links, processed_photos, new_links, images, photo_meta,
                   total_imagenes, pagerHist, harvestHist, runHist>>

\* A run that goes back to the photos once the video pass has ended.
FinishPassBackToPhotos ==
    /\ pc' = "scroll"
    /\ cat' = IF cat = "photo" THEN "video" ELSE "photo"
    /\ last_height' = 0
    /\ scroll_tries' = 0
    /\ no_new_content_count' = 0
    /\ iterations' = 0
    /\ since_new' = 0
    /\ uniform' = TRUE
    /\ seen_before' = {}
    /\ dom_hrefs' = {}
    /\ prev_dom' = {}
    /\ harvest_order' = <<>>
    /\ last' = NoTrace
    /\ UNCHANGED <<sel, capVars, linkVars, new_links, pending, fileVars, countVars,
                   runHist, ya_existe>>

\* A video pass that starts its counters afresh, as it does its scroll state.
FinishPassResetsCounters ==
    /\ pc' = IF cat = "photo" THEN "scroll" ELSE "done"
    /\ cat' = "video"
    /\ last_height' = 0
    /\ scroll_tries' = 0
    /\ no_new_content_count' = 0
    /\ iterations' = 0
    /\ since_new' = 0
    /\ uniform' = TRUE
    /\ seen_before' = {}
    /\ dom_hrefs' = {}
    /\ prev_dom' = {}
    /\ harvest_order' = <<>>
    /\ last' = NoTrace
    /\ total_imagenes' = 0
    /\ total_videos' = 0
    /\ errores' = 0
    /\ UNCHANGED <<sel, capVars, linkVars, new_links, pending, fileVars,
                   runHist, ya_existe>>

\* The end of a pass: the photo pass hands over to the video pass, whose
\* scroll state starts afresh; the video pass ends the run.
FinishPass ==
    /\ pc' = IF cat = "photo" THEN "scroll" ELSE "done"
    /\ cat' = "video"
    /\ last_height' = 0
    /\ scroll_tries' = 0
    /\ no_new_content_count' = 0
    /\ iterations' = 0
    /\ since_new' = 0
    /\ uniform' = TRUE
    /\ seen_before' = {}
    /\ dom_hrefs' = {}
    /\ prev_dom' = {}
    /\ harvest_order' = <<>>
    /\ last' = NoTrace
    /\ UNCHANGED <<sel, capVars, linkVars, new_links, pending, fileVars, countVars,
                   runHist, ya_existe>>

\* The loop condition is false when the loop comes back to it.
EndPass ==
    /\ pc = "scroll"
    /\ ~LoopCondition(scroll_tries, no_new_content_count)
    /\ FinishPass

\* The limit check that ends an iteration: break, or back to the loop condition.
CheckLimit ==
    /\ pc = "limit"
    /\ IF LimitReached(IF cat = "photo" THEN max_fotos ELSE max_videos,
                       IF cat = "photo" THEN processed_photos ELSE processed_videos)
       THEN FinishPass
       ELSE /\ pc' = "scroll"
            /\ UNCHANGED <<cat, sel, capVars, pagerVars, linkVars, new_links,
                           pending, fileVars, countVars, pagerHist, harvestHist, last,
                           runHist, ya_existe>>

\* The command is invoked again on the directory the first invocation left.
Restart ==
    /\ pc = "done"
    /\ run = 1
    /\ run' = 2
    /\ first_total' = total_imagenes + total_videos
    /\ ya_existe' = 0
    /\ pc' = "start"
    /\ cat' = "photo"
    /\ sel' = 1
    /\ last_height' = 0
    /\ scroll_tries' = 0
    /\ no_new_content_count' = 0
    /\ photo_links' = {}
    /\ processed_photos' = {}
    /\ video_links' = {}
    /\ processed_videos' = {}
    /\ new_links' = {}
    /\ pending' = {}
    /\ total_imagenes' = 0
    /\ total_videos' = 0
    /\ errores' = 0
    /\ iterations' = 0
    /\ since_new' = 0
    /\ uniform' = TRUE
    /\ seen_before' = {}
    /\ dom_hrefs' = {}
    /\ prev_dom' = {}
    /\ harvest_order' = <<>>
    /\ last' = NoTrace
    /\ UNCHANGED <<capVars, fileVars, world, scraperVars, goto_call, id_call, fs_call>>

(***************************************************************************)
(* FacebookScraper.scrape_profile: the profile page, then the photos tab   *)
(* and _download_photos, then the videos tab and _download_videos.         *)
(***************************************************************************)
\* if max_photos != 0: stats['photos'] = await self._download_photos(...)
CallsDownload(max) == max # 0

\* if max_photos > 0 and downloaded >= max_photos: break
LoopBreaks(max, count) == max > 0 /\ count >= max

\* await self.page.goto(profile_url): an exception ends scrape_profile with
\* one error.
ScrapeProfile(loaded) ==
    /\ scrape_pc = "idle"
    /\ scrape_pc' = IF loaded THEN "photos" ELSE "return"
    /\ stats' = IF loaded THEN stats ELSE [stats EXCEPT !.errors = @ + 1]
    /\ UNCHANGED <<max_photos, max_videos_arg, tab_links, todo, downloaded, descargarVars, goto_call, id_call, fs_call, scrape_file>>

\* The tab of a category: _download_photos / _download_videos is called, or
\* not, with the links the tab shows.
ScrapeTab ==
    /\ scrape_pc \in {"photos", "videos"}
    /\ LET max == IF scrape_pc = "photos" THEN max_photos ELSE max_videos_arg
       IN IF CallsDownload(max)
          THEN /\ todo' = tab_links[scrape_pc]
               /\ downloaded' = 0
               /\ scrape_pc' = IF scrape_pc = "photos" THEN "photo_loop" ELSE "video_loop"
          ELSE /\ scrape_pc' = IF scrape_pc = "photos" THEN "videos" ELSE "return"
               /\ UNCHANGED <<todo, downloaded>>
    /\ UNCHANGED <<max_photos, max_videos_arg, tab_links, stats, descargarVars, goto_call, id_call, fs_call, scrape_file>>

\* The path _save_metadata is given: _download_photos passes filepath, the
\* path of the image; _download_videos passes filepath.with_suffix('.json').
metadata_path(loop) == IF loop = "photo_loop" THEN "media" ELSE "sidecar"

\* What a round leaves on disk: nothing when _download_file returns False;
\* else the bytes at filepath, and then the JSON text at the path given to
\* _save_metadata.
RoundFiles(loop, got) ==
    [kind |-> IF loop = "photo_loop" THEN "foto" ELSE "video",
     media |-> IF ~got THEN "absent"
               ELSE IF metadata_path(loop) = "media" THEN "json" ELSE "bytes",
     sidecar |-> got /\ metadata_path(loop) = "sidecar"]

\* One round of the download loop: the next link, counted when
\* _download_file returns True.
ScrapeLink ==
    /\ scrape_pc \in {"photo_loop", "video_loop"}
    /\ todo # <<>>
    /\ ~LoopBreaks(IF scrape_pc = "photo_loop" THEN max_photos ELSE max_videos_arg,
                   downloaded)
    /\ downloaded' = IF Head(todo) THEN downloaded + 1 ELSE downloaded
    /\ scrape_file' = RoundFiles(scrape_pc, Head(todo))
    /\ todo' = Tail(todo)
    /\ UNCHANGED <<scrape_pc, max_photos, max_videos_arg, tab_links, stats, descargarVars, goto_call, id_call, fs_call>>

\* The loop ends, at the end of the list or at the cap: return downloaded.
ScrapeReturn ==
    /\ scrape_pc \in {"photo_loop", "video_loop"}
    /\ \/ todo = <<>>
       \/ LoopBreaks(IF scrape_pc = "photo_loop" THEN max_photos ELSE max_videos_arg,
                     downloaded)
    /\ stats' = IF scrape_pc = "photo_loop" THEN [stats EXCEPT !.photos = downloaded]
                ELSE [stats EXCEPT !.videos = downloaded]
    /\ scrape_pc' = IF scrape_pc = "photo_loop" THEN "videos" ELSE "return"
    /\ UNCHANGED <<max_photos, max_videos_arg, tab_links, todo, downloaded, descargarVars, goto_call, id_call, fs_call, scrape_file>>

(***************************************************************************)
(* Inputs.                                                                 *)
(***************************************************************************)
Heights == 0..MaxHeight

FeedUrl(category, i) == IF category = "photo" THEN PhotoUrl(i) ELSE VideoUrl(i)
FeedSize(category) == IF category = "photo" THEN NumPhotos ELSE NumVideos

RECURSIVE SeqsUpTo(_, _)
SeqsUpTo(S, n) ==
    IF n = 0 THEN {<<>>}
    ELSE LET shorter == SeqsUpTo(S, n - 1)
         IN shorter \cup {Append(q, x) : q \in shorter, x \in S}

\* What a strategy can return: every list of up to MaxAnchors anchors of two
\* posts of the feed and of a foreign host, or an anchor without href.
AnchorLists(category) ==
    SeqsUpTo({FeedUrl(category, 1), FeedUrl(category, 2),
              IF category = "photo" THEN ForeignPhoto ELSE ForeignVideo},
             MaxAnchors)
    \cup {<<NoHref>>}

\* A feed that shows its posts in order: the last strategy returns the
\* first k posts, the others nothing.
GrowingFeed(category, strategy) ==
    IF strategy = NumStrategies
    THEN {[i \in 1..k |-> FeedUrl(category, i)] : k \in 0..FeedSize(category)}
    ELSE {<<>>}

\* A feed that shows one post, found by the first strategy.
OnePostFeed(category, strategy) ==
    IF strategy = 1 THEN {<<FeedUrl(category, 1)>>} ELSE {<<>>}

Responses(category) == IF category = "photo" THEN ImageResponses ELSE VideoResponses

\* Every way a post page and the network can answer.
LinkEnvs(category) ==
    {Env(LoadsFail, FALSE, FALSE, "none", NotCalled, NotCalled),
     Env(LoadsLastOk, TRUE, FALSE, "none", NotCalled, NotCalled),
     Env(LoadsLastOk, FALSE, FALSE, "none", NotCalled, NotCalled),
     Env(LoadsOk, FALSE, TRUE, "none", NotCalled, NotCalled)}
    \cup {Env(LoadsOk, FALSE, TRUE, s, p, NotCalled) :
              s \in {"http", "//"},
              p \in Responses(category) \cup IF category = "video" THEN {Raised} ELSE {}}
    \cup {Env(LoadsOk, FALSE, TRUE, s, Raised, f) :
              s \in {"http", "//"},
              f \in IF category = "photo" THEN ImageResponses \cup {Raised} ELSE {NotCalled}}

\* A post page whose media downloads at the first request.
PlainEnvs(category) ==
    {Env(LoadsOk, FALSE, TRUE, "http",
         Resp("response", 200, IF category = "photo" THEN "image/jpeg" ELSE "video/mp4",
              MinBytes + 1),
         NotCalled)}

\* A post page whose media downloads at the first request, with every
\* combination of its metadata elements, and with an extraction that raises
\* at its first operation or after the hashtags.
MetaEnvs(category) ==
    {WithMeta(e, PageMeta(Len(MetaFields), present)) :
        e \in PlainEnvs(category), present \in [Range(MetaFields) -> BOOLEAN]}
    \cup {WithMeta(e, PageMeta(n, FullMeta.present)) :
             e \in PlainEnvs(category), n \in {0, 3}}

\* A profile: the anchors its tabs show, and what the post page and the
\* network answer for each link.
NoWorld == [photo |-> <<>>, video |-> <<>>, env |-> <<>>]

WorldPhotoUrls == {PhotoUrl(1), PhotoUrlAlt(1), PhotoUrl(2)}

WorldEnvs(category) ==
    PlainEnvs(category)
    \cup {Env(LoadsFail, FALSE, FALSE, "none", NotCalled, NotCalled)}
    \cup IF category = "photo"
         THEN {Env(LoadsOk, FALSE, TRUE, "http", Raised,
                   Resp("response", 200, "image/jpeg", MinBytes + 1)),
               Env(LoadsOk, FALSE, TRUE, "http",
                   Resp("response", 404, "text/html", MinBytes + 1), NotCalled)}
         ELSE {Env(LoadsOk, FALSE, TRUE, "http", Raised, NotCalled)}

Worlds ==
    {[photo |-> f, video |-> <<VideoUrl(1)>>, env |-> pe @@ ve] :
        f \in SeqsUpTo(WorldPhotoUrls, MaxAnchors),
        pe \in [WorldPhotoUrls -> WorldEnvs("photo")],
        ve \in [{VideoUrl(1)} -> WorldEnvs("video")]}

\* The tab shows the same anchors at every harvest, to the first strategy.
WorldFeed(category, strategy) ==
    IF strategy = 1 THEN {world[category]} ELSE {<<>>}

\* A profile whose photos tab shows the thumbnail of a video post inside an
\* anchor to the post (found by the last strategy, the ancestor anchor of an
\* image), and whose videos tab shows an anchor to the same post (found by
\* the second strategy).
SharedFeed(category, strategy) ==
    IF \/ category = "photo" /\ strategy = NumStrategies
       \/ category = "video" /\ strategy = 2
    THEN {<<VideoUrl(1)>>}
    ELSE {<<>>}

\* scrape_profile is not called.
ScraperIdle ==
    /\ max_photos = 0
    /\ max_videos_arg = 0
    /\ tab_links = [photos |-> <<>>, videos |-> <<>>]

\* The arguments of scrape_profile and the links of the two tabs.
ScraperArgs ==
    /\ max_photos \in 0..MaxCap
    /\ max_videos_arg \in 0..MaxCap
    /\ tab_links \in [{"photos", "videos"} -> SeqsUpTo(BOOLEAN, MaxAnchors)]

FreshDirectories ==
    /\ images = [id \in PhotoIds |-> Absent]
    /\ videos = [id \in VideoIds |-> Absent]

\* One cap for both categories.
SameCap == max_videos = max_fotos

\* The caps at their default: no limit.
NoCaps == max_fotos = 0 /\ max_videos = 0

\* Only the first post of a category has files of an earlier run.
OnlyFirstPostOld ==
    /\ \A id \in PhotoIds \ {get_photo_id_from_url(PhotoUrl(1))} : images[id] = Absent
    /\ \A id \in VideoIds \ {get_video_id_from_url(VideoUrl(1))} : videos[id] = Absent

(***************************************************************************)
(* The run with every answer of post pages and network, on a feed that     *)
(* shows one post per category and whose height does not change.           *)
(***************************************************************************)
InitRun == Init /\ ScraperIdle /\ world = NoWorld /\ NoCaps /\ OnlyFirstPostOld

Next ==
    \/ \E loads \in {LoadsOk, LoadsLastOk, LoadsFail} : Start(loads)
    \/ \E h \in {0} : Scroll(h)
    \/ SampleRaises
    \/ \E anchors \in OnePostFeed(cat, sel) : HarvestStrategy(anchors)
    \/ \E u \in pending, e \in LinkEnvs("photo") \cup MetaEnvs("photo") : ProcessPhoto(u, e)
    \/ \E u \in pending, e \in LinkEnvs("video") \cup MetaEnvs("video") : ProcessVideo(u, e)
    \/ EndPass
    \/ CheckLimit

Spec == InitRun /\ [][Next]_vars

(***************************************************************************)
(* The scroll pager with every sequence of height samples and every pace   *)
(* at which the posts of the feed appear.                                  *)
(***************************************************************************)
InitPager == Init /\ ScraperIdle /\ world = NoWorld /\ FreshDirectories /\ SameCap

NextPager ==
    \/ \E loads \in {LoadsOk, LoadsFail} : Start(loads)
    \/ \E h \in Heights : Scroll(h)
    \/ \E anchors \in GrowingFeed(cat, sel) : HarvestStrategy(anchors)
    \/ \E u \in pending, e \in PlainEnvs("photo") : ProcessPhoto(u, e)
    \/ \E u \in pending, e \in PlainEnvs("video") : ProcessVideo(u, e)
    \/ EndPass
    \/ CheckLimit

SpecPager == InitPager /\ [][NextPager]_vars

(***************************************************************************)
(* The harvest with every list of anchors a strategy can return.           *)
(***************************************************************************)
InitHarvest == Init /\ ScraperIdle /\ world = NoWorld /\ FreshDirectories /\ NoCaps

NextHarvest ==
    \/ \E loads \in {LoadsOk, LoadsFail} : Start(loads)
    \/ \E h \in {0} : Scroll(h)
    \/ \E anchors \in AnchorLists(cat) : HarvestStrategy(anchors)
    \/ \E u \in pending, e \in PlainEnvs("photo") : ProcessPhoto(u, e)
    \/ \E u \in pending, e \in PlainEnvs("video") : ProcessVideo(u, e)
    \/ EndPass
    \/ CheckLimit

SpecHarvest == InitHarvest /\ [][NextHarvest]_vars

(***************************************************************************)
(* The command invoked twice on the same profile and the same directory,   *)
(* empty at first.                                                         *)
(***************************************************************************)
InitTwice == Init /\ ScraperIdle /\ world \in Worlds /\ FreshDirectories /\ NoCaps

NextTwice ==
    \/ Start(LoadsOk)
    \/ \E h \in {0} : Scroll(h)
    \/ \E anchors \in WorldFeed(cat, sel) : HarvestStrategy(anchors)
    \/ \E u \in pending : ProcessPhoto(u, world.env[u])
    \/ \E u \in pending : ProcessVideo(u, world.env[u])
    \/ EndPass
    \/ CheckLimit
    \/ Restart

SpecTwice == InitTwice /\ [][NextTwice]_vars

(***************************************************************************)
(* The run on a profile whose two tabs show an anchor to the same post.    *)
(***************************************************************************)
InitShared == Init /\ ScraperIdle /\ world = NoWorld /\ FreshDirectories /\ NoCaps

NextShared ==
    \/ \E loads \in {LoadsOk, LoadsFail} : Start(loads)
    \/ \E h \in {0} : Scroll(h)
    \/ \E anchors \in SharedFeed(cat, sel) : HarvestStrategy(anchors)
    \/ \E u \in pending, e \in LinkEnvs("photo") : ProcessPhoto(u, e)
    \/ \E u \in pending, e \in LinkEnvs("video") : ProcessVideo(u, e)
    \/ EndPass
    \/ CheckLimit

SpecShared == InitShared /\ [][NextShared]_vars

(***************************************************************************)
(* FacebookScraper.scrape_profile with every pair of caps and every        *)
(* content of the two tabs.                                                *)
(***************************************************************************)
InitScraper == Init /\ ScraperArgs /\ world = NoWorld /\ FreshDirectories /\ NoCaps

NextScraper ==
    \/ \E loaded \in BOOLEAN : ScrapeProfile(loaded)
    \/ ScrapeTab
    \/ ScrapeLink
    \/ ScrapeReturn

SpecScraper == InitScraper /\ [][NextScraper]_vars

(***************************************************************************)
(* safe_goto with every outcome of its page loads, with and without a      *)
(* logger.                                                                 *)
(***************************************************************************)
InitGoto == Init /\ ScraperIdle /\ world = NoWorld /\ FreshDirectories /\ NoCaps

NextGoto ==
    \E loads \in [1..max_retries -> BOOLEAN], urls \in [1..max_retries -> BOOLEAN],
       logger \in BOOLEAN : CallSafeGoto(loads, urls, logger)

SpecGoto == InitGoto /\ [][NextGoto]_vars

(***************************************************************************)
(* The identifier functions and sanitize_filename called on their own.     *)
(* A url is written from its parts: network location, path segments and    *)
(* query parameters with their values.                                     *)
(***************************************************************************)
Str_https == <<"h", "t", "t", "p", "s", ":", "/", "/">>
Str_facebook ==
    <<"w", "w", "w", ".", "f", "a", "c", "e", "b", "o", "o", "k", ".", "c", "o", "m">>
Str_bracket == <<"[", "f", "b">>
Str_photo_php == <<"p", "h", "o", "t", "o", ".", "p", "h", "p">>
Str_videos == <<"v", "i", "d", "e", "o", "s">>

\* quote_plus of a parameter value: ' ' as '+', '/' as '%2F'.
RECURSIVE quote_plus(_)
quote_plus(s) ==
    IF s = <<>> THEN <<>>
    ELSE (IF s[1] = " " THEN <<"+">>
          ELSE IF s[1] = "/" THEN <<"%", "2", "F">>
          ELSE <<s[1]>>) \o quote_plus(Tail(s))

RECURSIVE PathString(_)
PathString(segs) ==
    IF segs = <<>> THEN <<>> ELSE <<"/">> \o Head(segs) \o PathString(Tail(segs))

RECURSIVE FieldsString(_)
FieldsString(pairs) ==
    IF pairs = <<>> THEN <<>>
    ELSE quote_plus(Head(pairs)[1]) \o <<"=">> \o quote_plus(Head(pairs)[2])
         \o (IF Tail(pairs) = <<>> THEN <<>> ELSE <<"&">> \o FieldsString(Tail(pairs)))

UrlString(parts) ==
    Str_https \o parts.netloc \o PathString(parts.segs)
    \o (IF parts.pairs = <<>> THEN <<>> ELSE <<"?">> \o FieldsString(parts.pairs))

ParamNames == {Str_fbid, Str_set, <<"i", "d">>}
ParamValues == {<<>>, <<"1">>, <<"a", ".", "1">>, <<"a", "/", "1">>, <<"a", "_", "1">>}
Segments == {<<>>, Str_videos, <<"1", "2">>, <<"1", ":", "2">>}
NameChars == {"a", "_", "/", " ", "."}

PhotoParts ==
    {[netloc |-> Str_facebook, segs |-> <<Str_photo_php>>, pairs |-> q] :
        q \in SeqsUpTo(ParamNames \X ParamValues, MaxPairs)}

VideoParts ==
    {[netloc |-> n, segs |-> p, pairs |-> q] :
        n \in {Str_facebook, Str_bracket},
        p \in SeqsUpTo(Segments, MaxSegs),
        q \in {<<>>, <<(<<(<<"v">>), (<<"a", "/", "1">>)>>)>>}}

Names == SeqsUpTo(NameChars, MaxName)

CallPhotoId(parts) ==
    /\ id_call' = [fn |-> "photo", parts |-> parts, arg |-> UrlString(parts),
                   result |-> photo_id(UrlString(parts))]
    /\ UNCHANGED <<descargarVars, scraperVars, goto_call, fs_call>>

CallVideoId(parts) ==
    /\ id_call' = [fn |-> "video", parts |-> parts, arg |-> UrlString(parts),
                   result |-> video_id(UrlString(parts))]
    /\ UNCHANGED <<descargarVars, scraperVars, goto_call, fs_call>>

CallSanitize(name) ==
    /\ id_call' = [fn |-> "sanitize", parts |-> NoParts, arg |-> name,
                   result |-> sanitize_filename(name)]
    /\ UNCHANGED <<descargarVars, scraperVars, goto_call, fs_call>>

\* The urls of get_high_resolution_url: texts with up to MaxName characters,
\* '?' among them.
SrcChars == {"a", "?", "&", "/"}
SrcUrls == SeqsUpTo(SrcChars, MaxName)

CallHighResolution(url) ==
    /\ id_call' = [fn |-> "high_resolution", parts |-> NoParts, arg |-> url,
                   result |-> get_high_resolution_url(url)]
    /\ UNCHANGED <<descargarVars, scraperVars, goto_call, fs_call>>

(***************************************************************************)
(* The directory functions called on their own, on every directory made of *)
(* a few entries.                                                          *)
(***************************************************************************)
ImageEntries ==
    {Entry(FileName("a", <<".jpg">>), "file"), Entry(FileName("B", <<".JPG">>), "file"),
     Entry(FileName("b", <<".Png">>), "file"), Entry(FileName("a", <<".png">>), "file"),
     Entry(FileName("a", <<".txt">>), "file"), Entry(FileName("b", <<>>), "file"),
     Entry(FileName("b", <<".jpg">>), "dir"), Entry(FileName("a", <<".json">>), "file")}

CallGetImageFiles(directory) ==
    /\ fs_call' = [fn |-> "get_image_files", directory |-> directory,
                   tools |-> <<FALSE, FALSE>>,
                   listing |-> get_image_files(directory), after |-> directory]
    /\ UNCHANGED <<descargarVars, scraperVars, goto_call, id_call>>

SidecarEntries ==
    {Entry(FileName(stem, tail), "file") :
        stem \in {"a", "b"}, tail \in {<<".jpg">>, DescTail, OcrTail}}
    \cup {Entry(FileName("a", <<".txt">>), "file")}

CallCleanup(directory) ==
    /\ fs_call' = [fn |-> "cleanup_processed_files", directory |-> directory,
                   tools |-> <<FALSE, FALSE>>, listing |-> <<>>,
                   after |-> cleanup_processed_files(directory)]
    /\ UNCHANGED <<descargarVars, scraperVars, goto_call, id_call>>

CallProcesarImagenes(directory, ollama, tesseract) ==
    /\ fs_call' = [fn |-> "procesar_imagenes", directory |-> directory,
                   tools |-> <<ollama, tesseract>>, listing |-> <<>>,
                   after |-> procesar_imagenes(directory, ollama, tesseract)]
    /\ UNCHANGED <<descargarVars, scraperVars, goto_call, id_call>>

InitFiles == Init /\ ScraperIdle /\ world = NoWorld /\ FreshDirectories /\ NoCaps

NextFiles ==
    \/ \E directory \in SUBSET ImageEntries : CallGetImageFiles(directory)
    \/ \E directory \in SUBSET SidecarEntries : CallCleanup(directory)
    \/ \E directory \in SUBSET SidecarEntries, ollama \in BOOLEAN, tesseract \in BOOLEAN :
          CallProcesarImagenes(directory, ollama, tesseract)

SpecFiles == InitFiles /\ [][NextFiles]_vars

InitIds == Init /\ ScraperIdle /\ world = NoWorld /\ FreshDirectories /\ NoCaps

NextIds ==
    \/ \E parts \in PhotoParts : CallPhotoId(parts)
    \/ \E parts \in VideoParts : CallVideoId(parts)
    \/ \E name \in Names : CallSanitize(name)
    \/ \E url \in SrcUrls : CallHighResolution(url)

SpecIds == InitIds /\ [][NextIds]_vars



(***************************************************************************)
(* Properties.                                                             *)
(***************************************************************************)
SeenSet == IF cat = "photo" THEN photo_links ELSE video_links
HarvestDone == pc \in {"process", "limit"}
LastId == IF cat = "photo" THEN get_photo_id_from_url(last.url)
          ELSE get_video_id_from_url(last.url)

\* C1: a category pass performs at most max_scroll_tries (30) scroll
\* iterations in total.
C1_AtMostMaxScrollTries == iterations <= max_scroll_tries

\* C2: if every height sample of a pass returns the same value, the pass
\* performs at most max_scroll_tries (30) scroll iterations.
C2_UniformHeightHalts == uniform => iterations <= max_scroll_tries

\* C3: once the harvests stop yielding new links, the pass performs at most
\* max_no_new_content (8) further scroll iterations, whatever the heights:
\* no iteration starts after the eighth.
C3_NoNewLinksHalts ==
    /\ since_new <= max_no_new_content
    /\ (pc = "scroll" /\ since_new = max_no_new_content)
          => ~LoopCondition(scroll_tries, no_new_content_count)

\* Eight iterations without a new link after a harvest that found one, the
\* height having changed in the last of them.
C3_Witness ==
    /\ pc = "scroll"
    /\ since_new = max_no_new_content
    /\ iterations > max_no_new_content
    /\ scroll_tries = 0
    /\ photo_links # {}

\* C4: the links a harvest hands to processing are the hrefs, of any
\* strategy, that start with https://www.facebook.com/, minus the seen-set
\* as it was before the harvest; the seen-set afterwards is its previous
\* value united with them.
C4_HarvestIsUnionMinusSeen ==
    HarvestDone =>
        /\ new_links = {h \in dom_hrefs : h.scheme = "https" /\ h.host = "www.facebook.com"}
                       \ seen_before
        /\ SeenSet = seen_before \cup new_links

\* A harvest that meets a seen link, a new one and a foreign one.
C4_Witness ==
    /\ pc = "process"
    /\ cat = "photo"
    /\ seen_before = {PhotoUrl(1)}
    /\ dom_hrefs = {PhotoUrl(1), PhotoUrl(2), ForeignPhoto}
    /\ new_links = {PhotoUrl(2)}

\* C5: a harvest of the DOM the previous harvest of the pass saw yields no
\* new link and leaves the seen-set as it was.
C5_HarvestIdempotent ==
    (HarvestDone /\ iterations >= 2 /\ dom_hrefs = prev_dom)
        => (new_links = {} /\ SeenSet = seen_before)

\* Two harvests in a row of a DOM that shows a post and a foreign link.
C5_Witness ==
    /\ pc = "limit"
    /\ cat = "video"
    /\ iterations >= 2
    /\ prev_dom = {VideoUrl(1), ForeignVideo}
    /\ dom_hrefs = prev_dom
    /\ new_links = {}

\* C6: whenever the primary request for a photo fails (a status other than
\* 200, a content type that is no image, a body of at most 1000 bytes, or a
\* transport error), the in-page fetch is invoked exactly once.
C6_FallbackOnEveryPrimaryFailure ==
    (/\ cat = "photo"
     /\ last.primary.kind # "none"
     /\ \/ last.primary.kind = "raised"
        \/ last.primary.status # 200
        \/ last.primary.ctype # "image/jpeg"
        \/ last.primary.len <= 1000)
        => last.secondary_calls = 1

\* C7: a media file is written only from a payload with status 200, a
\* content type of the media class and more than 1000 bytes.
C7_OnlyValidPayloadsWritten ==
    /\ \A id \in PhotoIds :
          images[id].kind = "response" =>
              /\ images[id].status = 200
              /\ images[id].ctype = "image/jpeg"
              /\ images[id].len > 1000
    /\ \A id \in VideoIds :
          videos[id].kind = "response" =>
              /\ videos[id].status = 200
              /\ videos[id].ctype = "video/mp4"
              /\ videos[id].len > 1000

\* C8: when the primary request and the in-page fetch both fail (a transport
\* error, or a payload that is not a 200 image of more than 1000 bytes) for
\* a photo whose destination did not exist, errores increases by exactly
\* one and the destination does not exist afterwards.
C8_BothFailCountsOneError ==
    [][(/\ pc = "process"
        /\ cat = "photo"
        /\ last'.primary.kind # "none"
        /\ ~last'.existed
        /\ \/ last'.primary.kind = "raised"
           \/ last'.primary.status # 200
           \/ last'.primary.ctype # "image/jpeg"
           \/ last'.primary.len <= 1000
        /\ last'.secondary_calls = 1
        /\ \/ last'.secondary.kind = "raised"
           \/ last'.secondary.status # 200
           \/ last'.secondary.ctype # "image/jpeg"
           \/ last'.secondary.len <= 1000)
          => /\ errores' = errores + 1
             /\ images'[get_photo_id_from_url(last'.url)].kind = "absent"]_vars

\* C9: a link whose payload is saved, by either strategy, increases the
\* downloaded counter of its category by exactly one and leaves errores
\* unchanged.
C9_SavedLinkCountsNoError ==
    [][/\ images' # images =>
            (total_imagenes' = total_imagenes + 1 /\ errores' = errores)
       /\ videos' # videos =>
            (total_videos' = total_videos + 1 /\ errores' = errores)]_vars

C11_NoImageCountsOneError ==
    [][(/\ pc = "process"
        /\ cat = "photo"
        /\ last'.nav
        /\ ~last'.raised
        /\ ~last'.located)
          => /\ images' = images
             /\ photo_meta' = photo_meta
             /\ ~last'.wrote /\ ~last'.sidecar
             /\ errores' = errores + 1]_vars

\* A photo page without image element: one error, no file, no sidecar.
C11_Witness ==
    /\ cat = "photo"
    /\ last.nav /\ ~last.raised /\ ~last.located
    /\ errores = 1
    /\ images[LastId].kind = "absent"
    /\ LastId \notin photo_meta

C13_SecondRunSkipsWhatFirstSaved ==
    (run = 2 /\ pc = "done")
        => /\ total_imagenes + total_videos = 0
           /\ ya_existe = first_total

\* C14: with a positive cap of a category, the links of that category
\* processed in a run, and so the items downloaded, never exceed the cap.
C14_CapBoundsProcessed ==
    /\ max_fotos > 0 =>
          (Cardinality(processed_photos) <= max_fotos /\ total_imagenes <= max_fotos)
    /\ max_videos > 0 =>
          (Cardinality(processed_videos) <= max_videos /\ total_videos <= max_videos)

\* How many links of a tab _download_file can get.
RECURSIVE Downloadable(_)
Downloadable(links) ==
    IF links = <<>> THEN 0
    ELSE (IF Head(links) THEN 1 ELSE 0) + Downloadable(Tail(links))

\* C15: a cap of 0 means no limit: the limit check of descargar never ends a
\* pass, and scrape_profile called with max_photos = 0 (max_videos = 0)
\* downloads the items its tab shows.
C15_ZeroCapIsUnlimited ==
    /\ \A processed \in SUBSET (FbPhotoUrls \cup FbVideoUrls) :
          ~LimitReached(0, processed)
    /\ (scrape_pc = "return" /\ stats.errors = 0) =>
          /\ max_photos = 0 => stats.photos = Downloadable(tab_links["photos"])
          /\ max_videos_arg = 0 => stats.videos = Downloadable(tab_links["videos"])

\* C16: every link of a harvest has been processed before the next scroll:
\* whenever the loop is about to scroll, no link is pending and the
\* processed links of a category are its seen-set.
C16_ProcessedBeforeNextScroll ==
    pc = "scroll" =>
        /\ pending = {}
        /\ processed_photos = photo_links
        /\ processed_videos = video_links

\* The loop back at the scroll after a harvest of two links or more.
C16_Witness ==
    /\ pc = "scroll"
    /\ cat = "photo"
    /\ iterations >= 1
    /\ Cardinality(new_links) >= 2
    /\ processed_photos = photo_links

\* The pending link the harvest met first.
RECURSIVE FirstPending(_)
FirstPending(order) ==
    IF order = <<>> THEN NoHref
    ELSE IF Head(order) \in pending THEN Head(order)
    ELSE FirstPending(Tail(order))

\* C17: the links of a harvest are processed in the order in which the
\* harvest met them (strategy order, then DOM order), one at a time.
C17_ProcessedInHarvestOrder ==
    [][(pc = "process" /\ pending' # pending)
          => last'.url = FirstPending(harvest_order)]_vars

\* C18: while the photo pass runs no video link is harvested or processed
\* and no video file or sidecar is written; once the video pass has started
\* no photo link is harvested or processed and no photo file is written.
C18_PhotosBeforeVideos ==
    [][/\ cat' = "photo" =>
            /\ video_links' = {} /\ processed_videos' = {}
            /\ video_meta' = {} /\ total_videos' = 0
            /\ videos' = videos
       /\ cat = "video" =>
            /\ photo_links' = photo_links /\ processed_photos' = processed_photos
            /\ images' = images /\ photo_meta' = photo_meta
            /\ total_imagenes' = total_imagenes]_vars

\* The video pass has saved a video after the photo pass saved a photo.
C18_Witness ==
    /\ cat = "video"
    /\ processed_photos # {}
    /\ total_imagenes = 1
    /\ last.wrote
    /\ total_videos = 1

\* C19: safe_goto makes at most max_retries (3) page loads, returns true at
\* the first attempt that does not raise and makes no further attempt,
\* whether or not the page URL contains the expected domain, and returns
\* false if and only if all 3 attempts raise.
C19_SafeGotoRetries ==
    goto_call.called =>
        LET raises(i) == ~goto_call.logger \/ ~goto_call.loads[i]
        IN  /\ goto_call.gotos <= max_retries
            /\ goto_call.result <=> \E i \in 1..max_retries : ~raises(i)
            /\ goto_call.result =>
                  /\ ~raises(goto_call.attempts)
                  /\ \A j \in 1..goto_call.attempts - 1 : raises(j)
                  /\ goto_call.gotos = goto_call.attempts

\* The second load succeeds and lands outside facebook.com: true, two loads.
C19_Witness ==
    /\ goto_call.called
    /\ goto_call.logger
    /\ goto_call.loads = <<FALSE, TRUE, TRUE>>
    /\ goto_call.urls = <<FALSE, FALSE, FALSE>>
    /\ goto_call.result
    /\ goto_call.gotos = 2

\* C20: if the navigation to the profile page fails after all retries, the
\* run ends there: no scroll, no harvest, no link processed, nothing
\* written, and no step after it.
C20_FailedStartEndsRun ==
    [][/\ (pc = "start" /\ ~goto_call'.result) =>
            /\ pc' = "done"
            /\ UNCHANGED <<cat, pagerVars, linkVars, new_links, pending, fileVars,
                           countVars, pagerHist, harvestHist, last>>
       /\ ~(pc = "done" /\ cat = "photo")]_vars

\* The run after three failed loads of the profile page.
C20_Witness ==
    /\ pc = "done"
    /\ cat = "photo"
    /\ goto_call.called
    /\ ~goto_call.result
    /\ goto_call.gotos = max_retries
    /\ iterations = 0
    /\ photo_links = {}
    /\ photo_meta = {}

\* C21: a link whose navigation fails after all retries yields no media
\* file and no sidecar, and the pass goes on: the links left in the batch
\* stay due and are processed next, and after the last one the loop goes
\* to its limit check and back to scrolling.
C21_NavigationFailureSkipsLink ==
    [][(/\ pc = "process"
        /\ pending' # pending
        /\ \A i \in 1..max_retries : ~world.env[last'.url].loads[i])
          => /\ ~last'.nav /\ ~last'.wrote /\ ~last'.sidecar
             /\ UNCHANGED fileVars
             /\ UNCHANGED <<total_imagenes, total_videos>>
             /\ pending' = pending \ {last'.url}
             /\ pc' = IF pending' = {} THEN "limit" ELSE "process"]_vars

\* The first link of a batch of two could not be loaded; the other is due.
C21_Witness ==
    /\ pc = "process"
    /\ cat = "photo"
    /\ run = 1
    /\ last.url # NoHref
    /\ ~last.nav
    /\ Cardinality(processed_photos) = 1
    /\ Cardinality(pending) = 1
    /\ photo_meta = {}

\* C22: every failure of a link (its navigation fails, no media element is
\* found, a page operation raises, or the download is attempted and saves
\* nothing) increments errores, and the loop goes on with the next link.
C22_EveryLinkFailureCounted ==
    [][(/\ pc = "process"
        /\ pending' # pending
        /\ \/ ~last'.nav
           \/ last'.raised
           \/ ~last'.located
           \/ (last'.primary # NotCalled /\ ~last'.wrote))
          => /\ errores' = errores + 1
             /\ pc' = IF pending' = {} THEN "limit" ELSE "process"]_vars

\* C23: no failure other than that of the initial navigation halts the
\* run: an exception of a page operation never leaves descargar before the
\* video pass and the final summary.
C23_OnlyStartFailureHalts == pc # "crashed"

\* C24: a URL is navigated to and processed at most once within a run,
\* across both passes, whether its processing succeeded or failed: the link
\* a pass processes was processed by neither pass before.
C24_LinkProcessedOnce ==
    [][(/\ pc = "process"
        /\ pending' # pending
        /\ last'.url \notin (IF cat = "photo" THEN processed_photos
                                               ELSE processed_videos))
          => last'.url \notin processed_photos \cup processed_videos]_vars

\* The first value of a parameter among the parts a url was written from;
\* a parameter without a value is absent.
FirstValue(pairs, name) ==
    LET mine == SelectSeq(pairs, LAMBDA p : p[1] = name /\ p[2] # <<>>)
    IN IF mine = <<>> THEN Str_unknown ELSE mine[1][2]

\* C25: the photo identifier is sanitize('photo_' + fbid + '_' + set) with
\* fbid and set the first values of those query parameters, 'unknown' when
\* absent, and a second call on the same url returns the same text.
C25_PhotoIdFromQuery ==
    id_call.fn = "photo" =>
        /\ id_call.result =
              sanitize_filename(Str_photo_ \o FirstValue(id_call.parts.pairs, Str_fbid)
                                \o <<"_">> \o FirstValue(id_call.parts.pairs, Str_set))
        /\ photo_id(id_call.arg) = id_call.result

C25_Witness ==
    /\ id_call.fn = "photo"
    /\ id_call.parts.pairs = <<(<<Str_fbid, (<<"1">>)>>), (<<Str_fbid, (<<"a", ".", "1">>)>>)>>
    /\ id_call.result = Str_photo_ \o <<"1", "_">> \o Str_unknown

\* C26: two photo urls with the same fbid value and different set values
\* have different identifiers.
C26_DifferentSetDifferentId ==
    [][(/\ id_call.fn = "photo"
        /\ id_call'.fn = "photo"
        /\ FirstValue(id_call.parts.pairs, Str_fbid) # Str_unknown
        /\ FirstValue(id_call.parts.pairs, Str_fbid)
              = FirstValue(id_call'.parts.pairs, Str_fbid)
        /\ FirstValue(id_call.parts.pairs, Str_set) # Str_unknown
        /\ FirstValue(id_call'.parts.pairs, Str_set) # Str_unknown
        /\ FirstValue(id_call.parts.pairs, Str_set)
              # FirstValue(id_call'.parts.pairs, Str_set))
          => id_call'.result # id_call.result]_vars

\* The last non-empty segment of the path a url was written from, <<>> if
\* it has none.
RECURSIVE LastNonEmpty(_)
LastNonEmpty(segs) ==
    IF segs = <<>> THEN <<>>
    ELSE IF segs[Len(segs)] # <<>> THEN segs[Len(segs)]
    ELSE LastNonEmpty(SubSeq(segs, 1, Len(segs) - 1))

\* C27: the video identifier is the sanitized last non-empty path segment;
\* when the path has no non-empty segment or parsing raises it is 'video_'
\* and the first 8 hexadecimal digits of the MD5 hash of the url.
C27_VideoIdFromPath ==
    id_call.fn = "video" =>
        IF id_call.parts.netloc # Str_bracket /\ LastNonEmpty(id_call.parts.segs) # <<>>
        THEN id_call.result = sanitize_filename(LastNonEmpty(id_call.parts.segs))
        ELSE id_call.result = Str_video_ \o Md5Hex8(id_call.arg)

C27_Witness ==
    /\ id_call.fn = "video"
    /\ id_call.parts.netloc = Str_facebook
    /\ id_call.parts.segs = <<(<<"1", ":", "2">>), (<<>>)>>
    /\ id_call.parts.pairs # <<>>
    /\ id_call.result = <<"1", "_", "2">>

\* C28: sanitize_filename replaces exactly the characters outside word
\* characters, '-', '_', '.' and space by '_': the output has the length of
\* the input, holds allowed characters only, and is a fixed point.
C28_SanitizeReplacesOutsiders ==
    id_call.fn = "sanitize" =>
        /\ Len(id_call.result) = Len(id_call.arg)
        /\ \A i \in 1..Len(id_call.arg) :
              id_call.result[i] =
                 IF id_call.arg[i] \in Letters \cup Digits \cup {"-", "_", ".", " "}
                 THEN id_call.arg[i] ELSE "_"
        /\ \A i \in 1..Len(id_call.result) :
              id_call.result[i] \in Letters \cup Digits \cup {"-", "_", ".", " "}
        /\ sanitize_filename(id_call.result) = id_call.result

C28_Witness ==
    /\ id_call.fn = "sanitize"
    /\ id_call.arg = <<"a", "/", " ">>
    /\ id_call.result = <<"a", "_", " ">>

\* C29: every sidecar written holds the five keys url, descripcion, fecha,
\* hashtags and autor, and each key whose page element is absent holds its
\* default whatever the other elements are.
C29_SidecarHasFiveFields ==
    [][(pc = "process" /\ pending' # pending /\ last'.sidecar)
          => \A f \in Range(MetaFields) : last'.meta[f] # "missing"]_vars

\* C30: the counters of downloaded photos, downloaded videos and errors
\* never decrease during a run: every step leaves each of them unchanged or
\* increases it.
C30_CountersNeverDecrease ==
    [][/\ total_imagenes' >= total_imagenes
       /\ total_videos' >= total_videos
       /\ errores' >= errores]_vars

C30_Witness ==
    /\ pc = "done"
    /\ total_imagenes = 1
    /\ total_videos = 1
    /\ errores = 1
    /\ processed_photos # {}
    /\ processed_videos # {}

\* C31: get_high_resolution_url returns the part of the url before its
\* first '?', the url itself when it holds no '?', and applied to its own
\* result it returns that result.
C31_HighResolutionCutsQuery ==
    id_call.fn = "high_resolution" =>
        LET url == id_call.arg
            marks == {i \in 1..Len(url) : url[i] = "?"}
        IN /\ marks = {} => id_call.result = url
           /\ marks # {} =>
                 /\ \E i \in marks :
                       /\ \A j \in marks : i <= j
                       /\ id_call.result = SubSeq(url, 1, i - 1)
           /\ get_high_resolution_url(id_call.result) = id_call.result

C31_Witness ==
    /\ id_call.fn = "high_resolution"
    /\ id_call.arg = <<"a", "?", "?">>
    /\ id_call.result = <<"a">>

\* C32: _get_image_files returns exactly the regular files of the directory
\* whose extension, compared without regard to case, is one of .jpg, .jpeg,
\* .png, .bmp, .tiff, .webp, each once and sorted by path.
C32_ImageFilesListed ==
    fs_call.fn = "get_image_files" =>
        LET listing == fs_call.listing
            images_of == {e.name : e \in {f \in fs_call.directory :
                            /\ f.kind = "file"
                            /\ f.name.tail # <<>>
                            /\ f.name.tail[Len(f.name.tail)]
                                  \in {".jpg", ".JPG", ".png", ".Png", ".jpeg", ".bmp",
                                       ".tiff", ".webp"}}}
        IN /\ Range(listing) = images_of
           /\ Len(listing) = Cardinality(images_of)
           /\ \A i, j \in 1..Len(listing) : i < j => PathLess(listing[i], listing[j])

C32_Witness ==
    /\ fs_call.fn = "get_image_files"
    /\ fs_call.directory = ImageEntries
    /\ fs_call.listing = <<FileName("B", <<".JPG">>), FileName("a", <<".jpg">>),
                           FileName("a", <<".png">>), FileName("b", <<".Png">>)>>

\* The name ends in .desc.txt or in .ocr.txt.
IsSidecarName(name) ==
    Len(name.tail) >= 2
    /\ SubSeq(name.tail, Len(name.tail) - 1, Len(name.tail)) \in {DescTail, OcrTail}

\* C38: procesar_imagenes processes every .jpg that lacks its .desc.txt or
\* its .ocr.txt and produces what is missing: with ollama and Tesseract at
\* work, every image has both sidecars afterwards.
C38_MissingSidecarsProduced ==
    (fs_call.fn = "procesar_imagenes" /\ fs_call.tools = <<TRUE, TRUE>>) =>
        \A img \in fs_call.directory :
            (img.kind = "file" /\ img.name.tail = <<".jpg">>) =>
                /\ exists(fs_call.after, FileName(img.name.stem, DescTail))
                /\ exists(fs_call.after, FileName(img.name.stem, OcrTail))

\* C39: cleanup_processed_files deletes every .desc.txt and .ocr.txt file
\* of the directory and leaves every other file untouched.
C39_CleanupDeletesSidecars ==
    fs_call.fn = "cleanup_processed_files" =>
        fs_call.after = {e \in fs_call.directory :
                            ~(e.kind = "file" /\ IsSidecarName(e.name))}

\* C33: in a scroll iteration the no-growth counter goes up by one when the
\* sampled height equals last_height and back to 0 otherwise, last_height
\* becomes the sample and the no-new-links counter is untouched; the
\* no-new-links counter goes back to 0 when the harvest found a new link
\* and up by one otherwise, and the no-growth counter is untouched.
C33_CountersIndependent ==
    [][/\ (pc = "scroll" /\ pc' = "harvest") =>
             /\ scroll_tries' = IF last_height' = last_height THEN scroll_tries + 1 ELSE 0
             /\ no_new_content_count' = no_new_content_count
       /\ (pc = "harvest" /\ pc' = "harvest") =>
             UNCHANGED <<scroll_tries, last_height, no_new_content_count>>
       /\ (pc = "harvest" /\ pc' = "limit") =>
             /\ new_links' = {}
             /\ no_new_content_count' = no_new_content_count + 1
             /\ UNCHANGED <<scroll_tries, last_height>>
       /\ (pc = "harvest" /\ pc' = "process") =>
             /\ new_links' # {}
             /\ UNCHANGED <<scroll_tries, last_height, no_new_content_count>>
       /\ (pc = "process" /\ pc' = "process") =>
             UNCHANGED <<scroll_tries, last_height, no_new_content_count>>
       /\ (pc = "process" /\ pc' = "limit") =>
             /\ no_new_content_count' = 0
             /\ UNCHANGED <<scroll_tries, last_height>>]_vars

C33_Witness ==
    /\ pc = "limit"
    /\ cat = "photo"
    /\ scroll_tries = 2
    /\ no_new_content_count = 0
    /\ since_new = 0
    /\ iterations = 4
    /\ Cardinality(processed_photos) = 1

\* C34: within a pass two distinct links never have the same destination
\* paths: in a run that starts on empty directories the links found have
\* distinct identifiers, and no link finds its destination on disk.
C34_DistinctLinksDistinctPaths ==
    [][(pc = "process" /\ pending' # pending /\ run = 1)
          => /\ \A u, v \in photo_links :
                   u # v => get_photo_id_from_url(u) # get_photo_id_from_url(v)
             /\ \A u, v \in video_links :
                   u # v => get_video_id_from_url(u) # get_video_id_from_url(v)
             /\ ~last'.existed]_vars

\* C35: after a link has been processed, also when the navigation to it
\* failed, the return to the tab of the category is invoked before the next
\* link and before the next scroll iteration.
C35_TabReturnAfterEveryLink ==
    [][(/\ pc = "process"
        /\ pending' # pending
        /\ last'.url \notin (IF cat = "photo" THEN processed_photos
                                               ELSE processed_videos))
          => last'.tab]_vars

\* C36: safe_goto called without a logger performs the page load and
\* returns true when the load succeeds, exactly as it does with a logger.
C36_SafeGotoWithoutLogger ==
    (goto_call.called /\ ~goto_call.logger) =>
        LET with_logger == GotoAttempts(1, 0, goto_call.loads, goto_call.urls, TRUE)
        IN /\ goto_call.result = with_logger.result
           /\ goto_call.gotos = with_logger.gotos
           /\ goto_call.loads[1] => goto_call.result

\* C37: in _download_photos, once the metadata of a downloaded photo has
\* been saved, foto_NNNN.jpg still holds the downloaded bytes: the metadata
\* is in a file of its own, as for the videos.
C37_PhotoKeptAfterMetadata ==
    (scrape_file.kind = "foto" /\ scrape_file.media # "absent") =>
        scrape_file.media = "bytes" /\ scrape_file.sidecar

====
